---- MODULE Spec2Model ----
(***************************************************************************)
(* Model of example/uber-button.py: the __main__ block, on_button and the  *)
(* helpers it calls (get_latlng, request_ufp_ride, update_ride, show_ui,   *)
(* init_gpio).  The ride API client, the geocoder, the GUI toolkit and the *)
(* GPIO library are the environment: each call to one of them is a step    *)
(* whose outcome is chosen among the outcomes the script distinguishes     *)
(* (a value, None, a ClientError or a ServerError).                        *)
(***************************************************************************)
EXTENDS Integers, Sequences, FiniteSets, TLC

\* Number of rising edges on pin 10 that are served (the script itself has
\* no limit).
MaxPresses == 2

START_NAME == "Lichtenbergstrasse 6, Garching bei Muenchen"
END_NAME == "Moosacher Strasse 86, Muenchen"
UFP_PRODUCT_ID == "bcb6224a-f21e-4cde-8e08-53cf9c98164d"

Addresses == {START_NAME, END_NAME}

\* Python's None as a geocoding result; a location is <<latitude, longitude>>.
None == <<>>
Locations == {<<48, 11>>, <<48, 10>>}
GeoResults == {None} \cup Locations
latitude(p) == p[1]
longitude(p) == p[2]

\* The errors the script catches around the ride API.
ApiErrors == {"ClientError", "ServerError"}

\* Successful answers of the ride API, as far as the script reads them.
Estimates ==
    [fare_id : {"fare-a", "fare-b"}, display : {"EUR 5", "EUR 7"},
     pickup_estimate : {2, 4}]
RequestIds == {"ride-1", "ride-2"}

\* Events window.Read() can hand back; None is the window being closed.
DialogEvents == {"OK", "None", "other"}

\* A local of on_button that has not been assigned yet.
Unbound == "unbound"

VARIABLES
    mainPc,           \* position of the __main__ block
    gpio,             \* "pending", "present" or "missing": import RPi.GPIO
    gpioSetup,        \* init_gpio has run
    detectRegistered, \* add_event_detect has registered on_button on pin 10
    enterPressed,     \* input() has returned
    cleanedUp,        \* GPIO.cleanup() has run
    directCalls,      \* number of direct calls on_button("")
    callbackCalls,    \* number of runs of on_button as the pin-10 callback
    pc,               \* position of the current run of on_button
    caller,           \* "direct" or "callback": who started the current run
    exc,              \* the exception that ended the run, or "none"
    cache,            \* the on-disk FileCache 'uber-button-cache'
    buffer,           \* the in-memory buffer of the FileCache object in use
    glPc,             \* position inside get_latlng
    slept,            \* time.sleep(1.1) has run in this get_latlng call
    geocodeCalls,     \* geocoder calls made so far, per address
    geoResult,        \* what the last geocoder call returned
    start,            \* on_button local
    end,              \* on_button local
    estimateCalls,    \* this run's estimate_ride calls
    requestCalls,     \* this run's request_ride calls
    estimate,         \* <<the estimate answer>> once estimate_ride returned
    request,          \* <<the request_id>> once request_ride returned
    ride_id,          \* on_button local
    pickup_estimate,  \* on_button local
    fare,             \* on_button local
    updates,          \* this run's update_sandbox_ride calls, in order
    dialog,           \* "none", "open" or "closed"
    dialogText,       \* <<eta, price>> shown by the window
    lastEvent,        \* the last event window.Read() returned
    console           \* this run's messages that matter, in order

mainVars == <<mainPc, gpio, gpioSetup, detectRegistered, enterPressed, cleanedUp>>
countVars == <<directCalls, callbackCalls>>
geoVars == <<cache, buffer, glPc, slept, geocodeCalls, geoResult>>
rideVars == <<estimateCalls, requestCalls, estimate, request, ride_id,
              pickup_estimate, fare, updates>>
uiVars == <<dialog, dialogText, lastEvent>>
vars == <<mainPc, gpio, gpioSetup, detectRegistered, enterPressed, cleanedUp,
          directCalls, callbackCalls, pc, caller, exc, cache, buffer, glPc,
          slept, geocodeCalls, geoResult, start, end, estimateCalls,
          requestCalls, estimate, request, ride_id, pickup_estimate, fare,
          updates, dialog, dialogText, lastEvent, console>>

\* The cache file outlives the process: it holds whatever earlier executions
\* stored for the two addresses.
Caches == UNION {[S -> GeoResults] : S \in SUBSET Addresses}

Init ==
    /\ mainPc = "import"
    /\ gpio = "pending"
    /\ gpioSetup = FALSE
    /\ detectRegistered = FALSE
    /\ enterPressed = FALSE
    /\ cleanedUp = FALSE
    /\ directCalls = 0
    /\ callbackCalls = 0
    /\ pc = "idle"
    /\ caller = "none"
    /\ exc = "none"
    /\ cache \in Caches
    /\ buffer = <<>>
    /\ glPc = "none"
    /\ slept = FALSE
    /\ geocodeCalls = [a \in Addresses |-> 0]
    /\ geoResult = None
    /\ start = None
    /\ end = None
    /\ estimateCalls = <<>>
    /\ requestCalls = <<>>
    /\ estimate = <<>>
    /\ request = <<>>
    /\ ride_id = Unbound
    /\ pickup_estimate = -1
    /\ fare = Unbound
    /\ updates = <<>>
    /\ dialog = "none"
    /\ dialogText = <<>>
    /\ lastEvent = "none"
    /\ console = <<>>

\* The process is alive: the callback thread dies with the main thread.
Alive == mainPc # "exit"

----------------------------------------------------------------------------
\* __main__

\* Variant: the direct call is made whether or not the import succeeded.
AfterImport_AlwaysDirect(imported) == "direct_call"

\* Where the try/except/else around the import goes on.
AfterImport(imported) == IF imported THEN "init_gpio" ELSE "direct_call"

\* import RPi.GPIO raises ImportError: testing mode.
ImportFails ==
    /\ mainPc = "import"
    /\ gpio' = "missing"
    /\ mainPc' = AfterImport(FALSE)
    /\ UNCHANGED <<gpioSetup, detectRegistered, enterPressed, cleanedUp,
                   countVars, pc, caller, exc, geoVars, start, end, rideVars,
                   uiVars, console>>

ImportSucceeds ==
    /\ mainPc = "import"
    /\ gpio' = "present"
    /\ mainPc' = AfterImport(TRUE)
    /\ UNCHANGED <<gpioSetup, detectRegistered, enterPressed, cleanedUp,
                   countVars, pc, caller, exc, geoVars, start, end, rideVars,
                   uiVars, console>>

\* The entry of on_button: fresh locals, then cancel_current_ride is next.
BeginRun(who) ==
    /\ pc' = "cancel"
    /\ caller' = who
    /\ exc' = "none"
    /\ start' = None
    /\ end' = None
    /\ estimateCalls' = <<>>
    /\ requestCalls' = <<>>
    /\ estimate' = <<>>
    /\ request' = <<>>
    /\ ride_id' = Unbound
    /\ pickup_estimate' = -1
    /\ fare' = Unbound
    /\ updates' = <<>>
    /\ dialog' = "none"
    /\ dialogText' = <<>>
    /\ lastEvent' = "none"
    /\ console' = <<>>
    /\ UNCHANGED geoVars

\* on_button("") in testing mode.
DirectCall ==
    /\ mainPc = "direct_call"
    /\ mainPc' = "in_call"
    /\ directCalls' = directCalls + 1
    /\ BeginRun("direct")
    /\ UNCHANGED <<gpio, gpioSetup, detectRegistered, enterPressed, cleanedUp,
                   callbackCalls>>

\* The direct call has returned or raised: the script ends.
DirectCallEnds ==
    /\ mainPc = "in_call"
    /\ pc \in {"returned", "raised"}
    /\ mainPc' = "exit"
    /\ UNCHANGED <<gpio, gpioSetup, detectRegistered, enterPressed, cleanedUp,
                   countVars, pc, caller, exc, geoVars, start, end, rideVars,
                   uiVars, console>>

init_gpio ==
    /\ mainPc = "init_gpio"
    /\ gpioSetup' = TRUE
    /\ mainPc' = "add_event_detect"
    /\ UNCHANGED <<gpio, detectRegistered, enterPressed, cleanedUp, countVars, pc,
                   caller, exc, geoVars, start, end, rideVars, uiVars,
                   console>>

add_event_detect ==
    /\ mainPc = "add_event_detect"
    /\ detectRegistered' = TRUE
    /\ mainPc' = "input"
    /\ UNCHANGED <<gpio, gpioSetup, enterPressed, cleanedUp, countVars, pc, caller,
                   exc, geoVars, start, end, rideVars, uiVars, console>>

\* input("Press enter to quit") returns.
PressEnter ==
    /\ mainPc = "input"
    /\ enterPressed' = TRUE
    /\ mainPc' = "cleanup"
    /\ UNCHANGED <<gpio, gpioSetup, detectRegistered, cleanedUp, countVars, pc,
                   caller, exc, geoVars, start, end, rideVars, uiVars,
                   console>>

\* GPIO.cleanup(), the last statement of the script.
cleanup ==
    /\ mainPc = "cleanup"
    /\ cleanedUp' = TRUE
    /\ detectRegistered' = FALSE
    /\ mainPc' = "exit"
    /\ UNCHANGED <<gpio, gpioSetup, enterPressed, countVars, pc, caller, exc,
                   geoVars, start, end, rideVars, uiVars, console>>

\* A rising edge on pin 10 while the callback thread is free: the GPIO
\* library calls on_button(10).  An exception of an earlier callback was
\* printed by the library and does not stop later callbacks.
RisingEdge ==
    /\ Alive
    /\ detectRegistered
    /\ pc \in {"idle", "returned", "raised"}
    /\ callbackCalls < MaxPresses
    /\ callbackCalls' = callbackCalls + 1
    /\ BeginRun("callback")
    /\ UNCHANGED <<mainVars, directCalls>>

----------------------------------------------------------------------------
\* on_button, up to the address check

\* api_client.cancel_current_ride() returns.
CancelOk ==
    /\ Alive
    /\ pc = "cancel"
    /\ pc' = "get_start"
    /\ glPc' = "lookup"
    /\ console' = Append(console, "coords")
    /\ UNCHANGED <<mainVars, countVars, caller, exc, cache, buffer, slept,
                   geocodeCalls, geoResult, start, end, rideVars, uiVars>>

\* api_client.cancel_current_ride() raises: nothing catches it.
CancelFails ==
    /\ Alive
    /\ pc = "cancel"
    /\ \E err \in ApiErrors : exc' = err
    /\ pc' = "raised"
    /\ UNCHANGED <<mainVars, countVars, caller, geoVars, start, end, rideVars,
                   uiVars, console>>

\* The argument of the get_latlng call in progress.
location == IF pc = "get_start" THEN START_NAME ELSE END_NAME

\* Variant: the membership test sees only the fresh object's buffer, never
\* the files of earlier calls.
InCache_BufferOnly(loc) == loc \in DOMAIN buffer

\* `location in cache` for the FileCache object of this call.
InCache(loc) == loc \in (DOMAIN buffer \cup DOMAIN cache)

\* cache[location]
ReadCache(loc) == IF loc \in DOMAIN buffer THEN buffer[loc] ELSE cache[loc]

\* Variant: the miss branch without its time.sleep(1.1).
AfterLookup_NoSleep(hit) == IF hit THEN "return" ELSE "geocode"

\* Where get_latlng goes after `if location not in cache`.
AfterLookup(hit) == IF hit THEN "return" ELSE "sleep"

\* `if location not in cache` finds the address.
LookupHit ==
    /\ Alive
    /\ glPc = "lookup"
    /\ InCache(location)
    /\ glPc' = AfterLookup(TRUE)
    /\ UNCHANGED <<mainVars, countVars, pc, caller, exc, cache, buffer, slept,
                   geocodeCalls, geoResult, start, end, rideVars, uiVars,
                   console>>

\* `if location not in cache` does not find it.
LookupMiss ==
    /\ Alive
    /\ glPc = "lookup"
    /\ ~InCache(location)
    /\ glPc' = AfterLookup(FALSE)
    /\ UNCHANGED <<mainVars, countVars, pc, caller, exc, cache, buffer, slept,
                   geocodeCalls, geoResult, start, end, rideVars, uiVars,
                   console>>

\* time.sleep(1.1)
Sleep ==
    /\ Alive
    /\ glPc = "sleep"
    /\ slept' = TRUE
    /\ glPc' = "geocode"
    /\ UNCHANGED <<mainVars, countVars, pc, caller, exc, cache, buffer,
                   geocodeCalls, geoResult, start, end, rideVars, uiVars,
                   console>>

\* cache[location] = geolocator.geocode(location)
Geocode ==
    /\ Alive
    /\ glPc = "geocode"
    /\ \E r \in GeoResults :
          /\ geoResult' = r
          /\ buffer' = (location :> r) @@ buffer
    /\ geocodeCalls' = [geocodeCalls EXCEPT ![location] = @ + 1]
    /\ glPc' = "sync"
    /\ UNCHANGED <<mainVars, countVars, pc, caller, exc, cache, slept, start,
                   end, rideVars, uiVars, console>>

\* What cache.sync() leaves on disk.
Synced(buf, disk) == buf @@ disk

\* cache.sync()
Sync ==
    /\ Alive
    /\ glPc = "sync"
    /\ cache' = Synced(buffer, cache)
    /\ buffer' = <<>>
    /\ glPc' = "return"
    /\ UNCHANGED <<mainVars, countVars, pc, caller, exc, slept, geocodeCalls,
                   geoResult, start, end, rideVars, uiVars, console>>

\* start = get_latlng(START_NAME) returns; get_latlng(END_NAME) is entered
\* with a FileCache object of its own.
ReturnStart ==
    /\ Alive
    /\ pc = "get_start"
    /\ glPc = "return"
    /\ start' = ReadCache(START_NAME)
    /\ pc' = "get_end"
    /\ glPc' = "lookup"
    /\ buffer' = <<>>
    /\ slept' = FALSE
    /\ UNCHANGED <<mainVars, countVars, caller, exc, cache, geocodeCalls,
                   geoResult, end, rideVars, uiVars, console>>

\* end = get_latlng(END_NAME) returns.
ReturnEnd ==
    /\ Alive
    /\ pc = "get_end"
    /\ glPc = "return"
    /\ end' = ReadCache(END_NAME)
    /\ pc' = "check"
    /\ glPc' = "none"
    /\ buffer' = <<>>
    /\ slept' = FALSE
    /\ UNCHANGED <<mainVars, countVars, caller, exc, cache, geocodeCalls,
                   geoResult, start, rideVars, uiVars, console>>

\* `if start is None`: the message, then return.
CheckStartInvalid ==
    /\ Alive
    /\ pc = "check"
    /\ start = None
    /\ console' = Append(console, "invalid_start")
    /\ pc' = "returned"
    /\ UNCHANGED <<mainVars, countVars, caller, exc, geoVars, start, end,
                   rideVars, uiVars>>

\* `if end is None`: the message and no return; the print of end.latitude
\* two lines on raises AttributeError.
CheckEndInvalid ==
    /\ Alive
    /\ pc = "check"
    /\ start # None
    /\ end = None
    /\ console' = Append(console, "invalid_end")
    /\ exc' = "AttributeError"
    /\ pc' = "raised"
    /\ UNCHANGED <<mainVars, countVars, caller, geoVars, start, end, rideVars,
                   uiVars>>

\* Both addresses resolved: the coordinates are printed, the request follows.
CheckOk ==
    /\ Alive
    /\ pc = "check"
    /\ start # None
    /\ end # None
    /\ pc' = "estimate"
    /\ UNCHANGED <<mainVars, countVars, caller, exc, geoVars, start, end,
                   rideVars, uiVars, console>>

----------------------------------------------------------------------------
\* request_ufp_ride and the rest of on_button

\* The arguments request_ufp_ride gives estimate_ride.
EstimateArgs(s, e) ==
    [product_id |-> UFP_PRODUCT_ID,
     start_latitude |-> latitude(s), start_longitude |-> longitude(s),
     end_latitude |-> latitude(e), end_longitude |-> longitude(e)]

\* Variant: request_ride is given a fare_id that is not the estimate's.
RequestArgs_StaleFare(s, e, est) ==
    [product_id |-> UFP_PRODUCT_ID,
     start_latitude |-> latitude(s), start_longitude |-> longitude(s),
     end_latitude |-> latitude(e), end_longitude |-> longitude(e),
     fare_id |-> "fare-a"]

\* The arguments request_ufp_ride gives request_ride after estimate est.
RequestArgs(s, e, est) ==
    [product_id |-> UFP_PRODUCT_ID,
     start_latitude |-> latitude(s), start_longitude |-> longitude(s),
     end_latitude |-> latitude(e), end_longitude |-> longitude(e),
     fare_id |-> est.fare_id]

\* The tuple request_ufp_ride returns from its else branch.
RideResult(rid, est) == <<rid, est.pickup_estimate, est.display>>

\* Variant: the except branch returns a tuple of Nones, so the unpacking
\* succeeds and on_button goes on without a ride.
AfterCall_GoesOn(ret) == "accept"

\* `ride_id, pickup_estimate, fare = request_ufp_ride(...)`: unpacking the
\* None of the except branch raises TypeError.
AfterCall(ret) == IF Len(ret) = 0 THEN "raised" ELSE "accept"

\* api_client.estimate_ride(...) returns an estimate.
EstimateOk ==
    /\ Alive
    /\ pc = "estimate"
    /\ \E est \in Estimates : estimate' = <<est>>
    /\ estimateCalls' =
          Append(estimateCalls, [args |-> EstimateArgs(start, end), ok |-> TRUE])
    /\ pc' = "request"
    /\ UNCHANGED <<mainVars, countVars, caller, exc, geoVars, start, end,
                   requestCalls, request, ride_id, pickup_estimate, fare,
                   updates, uiVars, console>>

\* api_client.estimate_ride(...) raises: the except branch prints the error
\* twice and returns None, which on_button cannot unpack.
EstimateFails ==
    /\ Alive
    /\ pc = "estimate"
    /\ estimateCalls' =
          Append(estimateCalls, [args |-> EstimateArgs(start, end), ok |-> FALSE])
    /\ console' = console \o <<"error", "fail">>
    /\ pc' = AfterCall(None)
    /\ exc' = IF pc' = "raised" THEN "TypeError" ELSE "none"
    /\ UNCHANGED <<mainVars, countVars, caller, geoVars, start, end,
                   requestCalls, estimate, request, ride_id, pickup_estimate,
                   fare, updates, uiVars>>

\* api_client.request_ride(...) returns: the summary is printed, the tuple
\* returned and unpacked.
RequestOk ==
    /\ Alive
    /\ pc = "request"
    /\ requestCalls' =
          Append(requestCalls,
                 [args |-> RequestArgs(start, end, estimate[1]), ok |-> TRUE])
    /\ \E rid \in RequestIds :
          LET ret == RideResult(rid, estimate[1]) IN
          /\ request' = <<rid>>
          /\ ride_id' = ret[1]
          /\ pickup_estimate' = ret[2]
          /\ fare' = ret[3]
          /\ pc' = AfterCall(ret)
    /\ UNCHANGED <<mainVars, countVars, caller, exc, geoVars, start, end,
                   estimateCalls, estimate, updates, uiVars, console>>

\* api_client.request_ride(...) raises: as for estimate_ride.
RequestFails ==
    /\ Alive
    /\ pc = "request"
    /\ requestCalls' =
          Append(requestCalls,
                 [args |-> RequestArgs(start, end, estimate[1]), ok |-> FALSE])
    /\ console' = console \o <<"error", "fail">>
    /\ pc' = AfterCall(None)
    /\ exc' = IF pc' = "raised" THEN "TypeError" ELSE "none"
    /\ UNCHANGED <<mainVars, countVars, caller, geoVars, start, end,
                   estimateCalls, estimate, request, ride_id, pickup_estimate,
                   fare, updates, uiVars>>

\* Variant: the two arguments of update_sandbox_ride in the wrong order.
SandboxCall_Swapped(ride_status, id, ok) ==
    [status |-> id, ride_id |-> ride_status, ok |-> ok]

\* The call update_ride makes: api_client.update_sandbox_ride(ride_id,
\* ride_status), with whether it returned.
SandboxCall(ride_status, id, ok) ==
    [status |-> ride_status, ride_id |-> id, ok |-> ok]

\* Variant: update_ride lets the error of a failed update escape.
AfterUpdate_Raises(ok, next) == IF ok THEN next ELSE "raised"

\* Where on_button goes on after update_ride: the except branch prints the
\* error and falls through.
AfterUpdate(ok, next) == next

\* update_ride(api_client, ride_status, ride_id), then on to `next`.
update_ride(ride_status, next) ==
    \E ok \in BOOLEAN :
       /\ updates' = Append(updates, SandboxCall(ride_status, ride_id, ok))
       /\ console' = IF ok THEN console ELSE Append(console, "fail")
       /\ pc' = AfterUpdate(ok, next)
       /\ exc' = IF pc' = "raised" THEN "ClientError" ELSE exc

\* update_ride(api_client, 'accepted', ride_id)
AcceptRide ==
    /\ Alive
    /\ pc = "accept"
    /\ update_ride("accepted", "show_ui")
    /\ UNCHANGED <<mainVars, countVars, caller, geoVars, start, end,
                   estimateCalls, requestCalls, estimate, request, ride_id,
                   pickup_estimate, fare, uiVars>>

\* The two Text elements of the window show_ui(eta, price) builds.
WindowText(eta, price) == <<eta, price>>

\* show_ui(pickup_estimate, fare) builds the window.
OpenDialog ==
    /\ Alive
    /\ pc = "show_ui"
    /\ dialog' = "open"
    /\ dialogText' = WindowText(pickup_estimate, fare)
    /\ pc' = "dialog"
    /\ UNCHANGED <<mainVars, countVars, caller, exc, geoVars, start, end,
                   rideVars, lastEvent, console>>

\* Variant: the loop breaks on any event.
Dismisses_Any(event) == TRUE

\* `if event in (None, 'OK')`
Dismisses(event) == event \in {"None", "OK"}

\* window.Read() returns an event; the loop breaks on OK or on the window
\* being closed, and window.Close() follows.
DialogEvent ==
    /\ Alive
    /\ pc = "dialog"
    /\ \E event \in DialogEvents :
          /\ lastEvent' = event
          /\ dialog' = IF Dismisses(event) THEN "closed" ELSE dialog
          /\ pc' = IF Dismisses(event) THEN "start_ride" ELSE pc
    /\ UNCHANGED <<mainVars, countVars, caller, exc, geoVars, start, end,
                   rideVars, dialogText, console>>

\* update_ride(api_client, 'in_progress', ride_id); time.sleep(5)
StartRide ==
    /\ Alive
    /\ pc = "start_ride"
    /\ update_ride("in_progress", "finish_ride")
    /\ UNCHANGED <<mainVars, countVars, caller, geoVars, start, end,
                   estimateCalls, requestCalls, estimate, request, ride_id,
                   pickup_estimate, fare, uiVars>>

\* update_ride(api_client, 'completed', ride_id), the last statement.
FinishRide ==
    /\ Alive
    /\ pc = "finish_ride"
    /\ update_ride("completed", "returned")
    /\ UNCHANGED <<mainVars, countVars, caller, geoVars, start, end,
                   estimateCalls, requestCalls, estimate, request, ride_id,
                   pickup_estimate, fare, uiVars>>

Next ==
    \/ ImportFails
    \/ ImportSucceeds
    \/ DirectCall
    \/ DirectCallEnds
    \/ init_gpio
    \/ add_event_detect
    \/ PressEnter
    \/ cleanup
    \/ RisingEdge
    \/ CancelOk
    \/ CancelFails
    \/ LookupHit
    \/ LookupMiss
    \/ Sleep
    \/ Geocode
    \/ Sync
    \/ ReturnStart
    \/ ReturnEnd
    \/ CheckStartInvalid
    \/ CheckEndInvalid
    \/ CheckOk
    \/ EstimateOk
    \/ EstimateFails
    \/ RequestOk
    \/ RequestFails
    \/ AcceptRide
    \/ OpenDialog
    \/ DialogEvent
    \/ StartRide
    \/ FinishRide

Spec == Init /\ [][Next]_vars

----------------------------------------------------------------------------
\* Vocabulary of the properties

Range(seq) == {seq[i] : i \in 1..Len(seq)}
Count(seq, x) == Cardinality({i \in 1..Len(seq) : seq[i] = x})
Failed(calls) == {i \in 1..Len(calls) : ~calls[i].ok}

\* The fixed sequence of sandbox statuses of the module docstring.
Statuses == <<"accepted", "in_progress", "completed">>

\* This run of on_button is over, normally or by an exception.
RunOver == pc \in {"returned", "raised"}

\* request_ride has returned successfully in this run.
RideRequested == Len(request) = 1

\* An estimate_ride or request_ride call of this run raised.
RequestFailed == Failed(estimateCalls) # {} \/ Failed(requestCalls) # {}

\* Both get_latlng calls of this run have returned.
Geocoded ==
    /\ "coords" \in Range(console)
    /\ pc \notin {"idle", "cancel", "get_start", "get_end"}

\* C1: in a run where both addresses resolve and the ride request succeeds,
\* the sandbox updates issued so far are always the first ones of accepted,
\* in_progress, completed, each for the request_id request_ride returned,
\* and when the run has returned all three have been issued, the last one
\* being 'completed'.
C1_UpdatesInOrder ==
    /\ Len(updates) <= Len(Statuses)
    /\ updates # <<>> => RideRequested
    /\ \A i \in 1..Len(updates) :
          /\ updates[i].status = Statuses[i]
          /\ updates[i].ride_id = request[1]
    /\ (RideRequested /\ pc = "returned") =>
          /\ Len(updates) = 3
          /\ updates[Len(updates)].status = "completed"

\* A run that resolved both addresses, got its ride and has returned.
C1_Witness ==
    /\ pc = "returned"
    /\ start # None /\ end # None
    /\ RideRequested
    /\ Len(updates) = 3

\* C2: whenever an estimate, request or status-update call of the run has
\* failed with a ClientError or ServerError, a failure message was printed
\* for it and on_button does not end with an unhandled exception.
C2_ApiErrorsHandled ==
    LET failures == Cardinality(Failed(estimateCalls))
                    + Cardinality(Failed(requestCalls))
                    + Cardinality(Failed(updates))
    IN failures > 0 => (Count(console, "fail") = failures /\ pc # "raised")

\* C3: the geocoder is called for an address only when the address is no key
\* of the cache, at most once per address; what it returned (None included)
\* is what sync leaves stored under the address; every get_latlng call
\* returns the stored value; a stored entry is never changed or removed.
C3_CacheDiscipline ==
    /\ [](\A a \in Addresses : geocodeCalls[a] <= 1)
    /\ [][\A a \in Addresses :
            /\ geocodeCalls'[a] # geocodeCalls[a] => a \notin DOMAIN cache
            /\ a \in DOMAIN cache =>
                  (a \in DOMAIN cache' /\ cache'[a] = cache[a])]_vars
    /\ [][(glPc = "sync" /\ glPc' = "return") =>
            (location \in DOMAIN cache' /\ cache'[location] = geoResult)]_vars
    /\ [][(pc = "get_start" /\ pc' = "get_end") =>
            (START_NAME \in DOMAIN cache /\ start' = cache[START_NAME])]_vars
    /\ [][(pc = "get_end" /\ pc' = "check") =>
            (END_NAME \in DOMAIN cache /\ end' = cache[END_NAME])]_vars

\* A second button press served from the cache after the first press had to
\* geocode both addresses, one of them without a result.
C3_Witness ==
    /\ callbackCalls = 2
    /\ pc = "check"
    /\ geocodeCalls[START_NAME] = 1 /\ geocodeCalls[END_NAME] = 1
    /\ start # None /\ end = None

\* C4: the dialog exists only after the ride was requested and the
\* 'accepted' update issued, and shows the pickup estimate and the fare
\* display of this run's estimate; while it is open no further update is
\* issued; it is closed only by an OK or window-close event, and any other
\* event leaves it open with the flow still waiting.
C4_DialogBlocksRide ==
    /\ [](dialog # "none" =>
            /\ RideRequested
            /\ Len(updates) >= 1 /\ updates[1].status = "accepted"
            /\ dialogText = <<estimate[1].pickup_estimate, estimate[1].display>>)
    /\ [](dialog = "open" => Len(updates) = 1)
    /\ [][Len(updates') = 2 /\ Len(updates) = 1 =>
            (dialog = "closed" /\ lastEvent \in {"OK", "None"})]_vars
    /\ [][(dialog = "open" /\ dialog' # "open") =>
            (dialog' = "closed" /\ lastEvent' \in {"OK", "None"})]_vars
    /\ [][(dialog = "open" /\ lastEvent' \notin {"OK", "None"}) =>
            (dialog' = "open" /\ pc' = "dialog" /\ updates' = updates)]_vars

\* The dialog has seen an event that is neither OK nor a close and is still
\* open, with the ride accepted.
C4_Witness ==
    /\ dialog = "open"
    /\ lastEvent = "other"
    /\ Len(updates) = 1
    /\ dialogText = <<estimate[1].pickup_estimate, estimate[1].display>>

\* The dialog was dismissed and 'in_progress' issued after it.
C4_WitnessDismissed ==
    /\ dialog = "closed"
    /\ Len(updates) >= 2 /\ updates[2].status = "in_progress"

\* C5: request_ride is called at most once per run, only after estimate_ride
\* returned successfully for the same product and coordinates, with the
\* fare_id of that estimate; after a failed estimate_ride it is not called.
C5_RequestAfterEstimate ==
    /\ Len(estimateCalls) <= 1
    /\ Len(requestCalls) <= 1
    /\ requestCalls # <<>> =>
          /\ Len(estimateCalls) = 1
          /\ estimateCalls[1].ok
          /\ Len(estimate) = 1
          /\ \A f \in DOMAIN estimateCalls[1].args :
                requestCalls[1].args[f] = estimateCalls[1].args[f]
          /\ requestCalls[1].args.product_id = UFP_PRODUCT_ID
          /\ requestCalls[1].args.fare_id = estimate[1].fare_id
    /\ Failed(estimateCalls) # {} => requestCalls = <<>>

\* request_ride was called with the second fare id.
C5_Witness ==
    /\ Len(requestCalls) = 1
    /\ requestCalls[1].args.fare_id = "fare-b"

\* A run whose estimate_ride failed and which is over.
C5_WitnessEstimateFailed == Failed(estimateCalls) # {} /\ RunOver

\* C6: without the GPIO library on_button runs exactly once, by the direct
\* call, after which the script ends; with it on_button is never called
\* directly and runs only as a callback, which is registered after
\* init_gpio, and GPIO.cleanup() runs only after input() returned.
C6_Trigger ==
    /\ gpio = "missing" =>
          /\ callbackCalls = 0 /\ ~detectRegistered /\ ~cleanedUp
          /\ directCalls <= 1
          /\ mainPc \in {"in_call", "exit"} => directCalls = 1
          /\ mainPc = "exit" => RunOver
    /\ gpio = "present" =>
          /\ directCalls = 0
          /\ caller # "direct"
          /\ (detectRegistered \/ callbackCalls > 0) => gpioSetup
          /\ cleanedUp => enterPressed
          /\ mainPc = "exit" => cleanedUp

\* Testing mode: the one direct run is over and the script has ended.
C6_Witness == gpio = "missing" /\ mainPc = "exit" /\ directCalls = 1

\* GPIO mode: two callbacks ran, then enter was pressed and cleanup ran.
C6_WitnessGpio == gpio = "present" /\ cleanedUp /\ callbackCalls = 2

\* C7: a geocoder call is made only after time.sleep(1.1) ran in the same
\* get_latlng call and only on a miss; the sleep too runs only on a miss;
\* and a get_latlng call that finds its address goes straight to its return.
C7_SleepBeforeGeocode ==
    /\ [][geocodeCalls' # geocodeCalls => (slept /\ ~InCache(location))]_vars
    /\ [][(slept' /\ ~slept) => ~InCache(location)]_vars
    /\ [][(glPc = "lookup" /\ InCache(location) /\ glPc' # glPc) =>
            (glPc' = "return" /\ ~slept'
             /\ geocodeCalls' = geocodeCalls)]_vars

\* The geocoder has just been called for the end address, after the sleep,
\* in a run whose start address was found in the cache.
C7_Witness ==
    /\ pc = "get_end"
    /\ glPc = "sync"
    /\ slept
    /\ geocodeCalls[END_NAME] = 1 /\ geocodeCalls[START_NAME] = 0

\* C8: once the ride request has succeeded the run cannot end by an
\* exception: each failed status update is printed and the flow goes on, so
\* a run that has returned attempted accepted, in_progress and completed
\* once each, whichever of them failed.
C8_UpdatesSurviveErrors ==
    RideRequested =>
       /\ pc # "raised"
       /\ exc = "none"
       /\ Count(console, "fail") = Cardinality(Failed(updates))
       /\ pc = "returned" =>
             [i \in 1..Len(updates) |-> updates[i].status] = Statuses
       /\ Len(updates) = 1 => pc \in {"show_ui", "dialog", "start_ride"}
       /\ Len(updates) = 2 => pc = "finish_ride"
       /\ Len(updates) = 3 => pc = "returned"

\* A run that has returned although all three status updates failed.
C8_Witness ==
    /\ pc = "returned"
    /\ Len(updates) = 3
    /\ Failed(updates) = {1, 2, 3}

\* C9: when geocoding gave no result for the start or for the end address,
\* on_button has printed the invalid-address message and returned normally,
\* with no estimate_ride, request_ride or update_sandbox_ride call.
C9_InvalidAddressReturns ==
    (RunOver /\ Geocoded /\ (start = None \/ end = None)) =>
       /\ pc = "returned"
       /\ exc = "none"
       /\ (start = None => "invalid_start" \in Range(console))
       /\ (start # None => "invalid_end" \in Range(console))
       /\ estimateCalls = <<>> /\ requestCalls = <<>> /\ updates = <<>>

\* C10: status updates and the dialog happen only in a run whose
\* request_ride returned; after a failed estimate_ride or request_ride there
\* is no update and no dialog; every update carries a ride id request_ride
\* returned.
C10_NoUpdateWithoutRide ==
    /\ (updates # <<>> \/ dialog # "none") => RideRequested
    /\ RequestFailed => (updates = <<>> /\ dialog = "none")
    /\ \A i \in 1..Len(updates) : updates[i].ride_id \in RequestIds

\* A run whose request_ride failed after a successful estimate is over.
C10_Witness ==
    /\ RunOver
    /\ Failed(requestCalls) # {}
    /\ Len(estimate) = 1
    /\ updates = <<>>

====
